---- MODULE Spec2Model ----
(***************************************************************************)
(* Model of code/tools/create_qdrant_collection.py: the command line tool  *)
(* that creates, recreates or lists Qdrant collections through             *)
(* QdrantVectorClient.                                                     *)
(*                                                                         *)
(* A command line token is a sequence of one-character strings, so that    *)
(* str.lower() and int() are computed character by character.  A process   *)
(* (one run of the script) is a record; proc[p] is the record of process   *)
(* p.  An optional Python value is a sequence: <<>> when unset, <<v>> when  *)
(* set.  A printed line is the tuple of the pieces of its f-string.        *)
(***************************************************************************)
EXTENDS Integers, Sequences, FiniteSets

\* ------------------------------------------------------------------------
\* Bounds of the model

\* Number of script processes that may run concurrently in SpecConc.
NumProcs == 2

\* Longest collection listing the vector store answers with.
MaxListLen == 2

\* ------------------------------------------------------------------------
\* Command line tokens

TokProg == <<"s">>
TokCreate == <<"c", "r", "e", "a", "t", "e">>
TokCREATE == <<"C", "R", "E", "A", "T", "E">>
TokRecreate == <<"r", "e", "c", "r", "e", "a", "t", "e">>
TokList == <<"l", "i", "s", "t">>
TokLiSt == <<"L", "i", "S", "t">>
TokFOO == <<"F", "O", "O">>
TokDocs == <<"D", "o", "c", "s">>
TokLocal == <<"l", "o", "c", "a", "l">>
Tok768 == <<"7", "6", "8">>
Tok8 == <<"8">>
TokPlus8 == <<"+", "8">>
Tok8x == <<"8", "x">>

\* Python's None, where a token may stand: no token is made of it.
None == <<"None">>

\* vector_size: int = 1536, and the default main() passes.
DefaultVectorSize == 1536

\* ------------------------------------------------------------------------
\* str.lower() and int()

UpperToLower ==
  [c \in {"A", "B", "C", "D", "E", "F", "G", "H", "I", "J", "K", "L", "M",
          "N", "O", "P", "Q", "R", "S", "T", "U", "V", "W", "X", "Y", "Z"} |->
     CASE c = "A" -> "a" [] c = "B" -> "b" [] c = "C" -> "c" [] c = "D" -> "d"
       [] c = "E" -> "e" [] c = "F" -> "f" [] c = "G" -> "g" [] c = "H" -> "h"
       [] c = "I" -> "i" [] c = "J" -> "j" [] c = "K" -> "k" [] c = "L" -> "l"
       [] c = "M" -> "m" [] c = "N" -> "n" [] c = "O" -> "o" [] c = "P" -> "p"
       [] c = "Q" -> "q" [] c = "R" -> "r" [] c = "S" -> "s" [] c = "T" -> "t"
       [] c = "U" -> "u" [] c = "V" -> "v" [] c = "W" -> "w" [] c = "X" -> "x"
       [] c = "Y" -> "y" [] c = "Z" -> "z"]

\* str.lower(): every cased character mapped to lower case.
Lower(tok) ==
  [i \in 1..Len(tok) |->
     IF tok[i] \in DOMAIN UpperToLower THEN UpperToLower[tok[i]] ELSE tok[i]]

DigitValue ==
  [c \in {"0", "1", "2", "3", "4", "5", "6", "7", "8", "9"} |->
     CASE c = "0" -> 0 [] c = "1" -> 1 [] c = "2" -> 2 [] c = "3" -> 3
       [] c = "4" -> 4 [] c = "5" -> 5 [] c = "6" -> 6 [] c = "7" -> 7
       [] c = "8" -> 8 [] c = "9" -> 9]

\* The digits of a literal, its sign removed.
Unsigned(tok) ==
  IF Len(tok) > 0 /\ tok[1] \in {"+", "-"} THEN Tail(tok) ELSE tok

\* Whether int(tok) returns: an optional sign, then one digit or more.
\* (No token of the model holds white space or an underscore.)
IsIntLiteral(tok) ==
  /\ Len(Unsigned(tok)) > 0
  /\ \A i \in 1..Len(Unsigned(tok)) : Unsigned(tok)[i] \in DOMAIN DigitValue

RECURSIVE DigitsValue(_)
DigitsValue(ds) ==
  IF Len(ds) = 0 THEN 0
  ELSE 10 * DigitsValue(SubSeq(ds, 1, Len(ds) - 1)) + DigitValue[ds[Len(ds)]]

\* int(tok), for a token int() accepts.
IntOf(tok) ==
  IF Len(tok) > 0 /\ tok[1] = "-" THEN 0 - DigitsValue(Unsigned(tok))
  ELSE DigitsValue(Unsigned(tok))

\* ------------------------------------------------------------------------
\* main(): reading sys.argv

\* len(sys.argv)
Argc(a) == Len(a)

\* sys.argv[i] (Python counts from 0)
Argv(a, i) == a[i + 1]

\* sys.argv[i] if len(sys.argv) > i else None
ArgOrNone(a, i) == IF Argc(a) > i THEN Argv(a, i) ELSE None

\* command = sys.argv[1].lower()
Command(a) == Lower(Argv(a, 1))

\* Whether int(sys.argv[3]) is evaluated and raises ValueError.
VectorSizeFails(a) == Argc(a) > 3 /\ ~IsIntLiteral(Argv(a, 3))

\* Mutant of VectorSizeArg: the token is not read, the default is passed.
VectorSizeArgDefault(a) == DefaultVectorSize

\* vector_size = int(sys.argv[3]) if len(sys.argv) > 3 else 1536
VectorSizeArg(a) == IF Argc(a) > 3 THEN IntOf(Argv(a, 3)) ELSE DefaultVectorSize

\* ------------------------------------------------------------------------
\* QdrantVectorClient (retrieval/qdrant.py), the external vector store client

TokNlweb == <<"n", "l", "w", "e", "b">>
TokQdrant == <<"q", "d">>

\* client.default_collection_name
DefaultCollectionName == TokNlweb

\* The endpoint the client prefers when it is given none.
PreferredEndpoint == TokQdrant

\* The collections the vector store may hold.
CollectionNames == {DefaultCollectionName, TokDocs}

\* str(e) of the exception a failing client call raises.
ErrMsg == "connection refused"

\* The name a client call acts on: its argument, or the configured one.
EffectiveName(name) == IF name = None THEN DefaultCollectionName ELSE name

\* What a client call can end with: an exception, or a value; and the
\* collections of the vector store after it.
Outcome(raised, value, st) == [raised |-> raised, value |-> value, store |-> st]

\* QdrantVectorClient(endpoint_name=...)
ConstructorOutcomes(endpoint_name, st) ==
  { Outcome(TRUE, <<>>, st),
    Outcome(FALSE,
            [endpoint_name |-> IF endpoint_name = None THEN PreferredEndpoint
                                                        ELSE endpoint_name,
             default_collection_name |-> DefaultCollectionName],
            st) }

\* await client.collection_exists(name)
CollectionExistsOutcomes(name, st) ==
  { Outcome(TRUE, FALSE, st),
    Outcome(FALSE, st[EffectiveName(name)] # <<>>, st) }

\* await client.create_collection(name, size): creates an absent collection;
\* answers False and changes nothing when it fails or the collection exists.
CreateCollectionOutcomes(name, size, st) ==
  { Outcome(TRUE, FALSE, st), Outcome(FALSE, FALSE, st) }
  \cup IF st[EffectiveName(name)] = <<>>
       THEN { Outcome(FALSE, TRUE, [st EXCEPT ![EffectiveName(name)] = <<size>>]) }
       ELSE {}

\* await client.recreate_collection(name, size): drop, then create.  A failure
\* may come before the drop or between the drop and the create.
RecreateCollectionOutcomes(name, size, st) ==
  { Outcome(FALSE, TRUE, [st EXCEPT ![EffectiveName(name)] = <<size>>]) }
  \cup { Outcome(r, FALSE, s) :
           r \in BOOLEAN, s \in {st, [st EXCEPT ![EffectiveName(name)] = <<>>]} }

\* await client._get_qdrant_client()
GetQdrantClientOutcomes(st) ==
  { Outcome(TRUE, <<>>, st), Outcome(FALSE, <<"AsyncQdrantClient">>, st) }

\* The sequences of at most n collection names.
RECURSIVE Listings(_)
Listings(n) ==
  IF n = 0 THEN { <<>> }
  ELSE Listings(n - 1)
       \cup { Append(l, c) : l \in { x \in Listings(n - 1) : Len(x) = n - 1 },
                             c \in CollectionNames }

\* await qdrant_client.get_collections(): collections.collections, as names.
GetCollectionsOutcomes(st) ==
  { Outcome(TRUE, <<>>, st) } \cup { Outcome(FALSE, l, st) : l \in Listings(MaxListLen) }

\* ------------------------------------------------------------------------
\* State

Procs == 1..NumProcs

VARIABLES
  proc,   \* proc[p]: the script process p
  store,  \* store[name]: <<>> when the collection is absent, else <<its vector size>>
  prev    \* what the run of the script before this one left: <<>>, or <<summary>>

vars == <<proc, store, prev>>

\* A process before it is started.  pc: the place of the process; argv to
\* collections: the local variables of main() and of the coroutines; ret: the
\* value the coroutine returned; exit: the exit status; out: the lines
\* printed; logged: the messages given to logger.exception; calls: the client
\* calls issued, in order, the constructor first; fault: the number of client
\* calls issued when one of them raised.
InitProc ==
  [pc |-> "idle", argv |-> <<>>,
   collection_name |-> None, vector_size |-> 0, endpoint_name |-> None,
   recreate |-> FALSE, client |-> <<>>,
   exists |-> <<>>, success |-> <<>>, collections |-> <<>>,
   ret |-> <<>>, exit |-> <<>>,
   out |-> <<>>, logged |-> <<>>, calls |-> <<>>, fault |-> <<>>]

Init ==
  /\ proc = [p \in Procs |-> InitProc]
  /\ store \in [CollectionNames -> {<<>>, <<DefaultVectorSize>>}]
  /\ prev = <<>>

\* ------------------------------------------------------------------------
\* The coroutines, between two awaits

PrintLine(pr, line) == [pr EXCEPT !.out = Append(@, line)]

Call(pr, call) == [pr EXCEPT !.calls = Append(@, call)]

\* collection_name or client.default_collection_name
DisplayName(pr) ==
  IF pr.collection_name = None \/ pr.collection_name = <<>>
  THEN pr.client[1].default_collection_name
  ELSE pr.collection_name

\* asyncio.run(...) returns the coroutine's value, main() returns, and the
\* interpreter exits with status 0.
Return(pr, value) == [pr EXCEPT !.ret = <<value>>, !.exit = <<0>>, !.pc = "exited"]

\* An exception no handler catches: traceback, exit status 1.
Uncaught(pr) == [pr EXCEPT !.exit = <<1>>, !.pc = "exited"]

\* A client call raises here.
Raise(pr) == [pr EXCEPT !.fault = <<Len(pr.calls)>>]

\* Mutant of Except: the handler logs and raises again.
ExceptReraise(pr, prefix) ==
  Uncaught([PrintLine(pr, <<prefix, ErrMsg>>) EXCEPT !.logged = Append(@, <<prefix, ErrMsg>>)])

\* except Exception as e: print, logger.exception, return False
Except(pr, prefix) ==
  Return([PrintLine(pr, <<prefix, ErrMsg>>) EXCEPT !.logged = Append(@, <<prefix, ErrMsg>>)],
         FALSE)

\* Mutant of CreateEntry: the recreate flag is not looked at, every call drops
\* and creates.
CreateEntryAlwaysRecreate(pr, o) ==
  IF o.raised THEN Except(Raise(Call(pr, <<"QdrantVectorClient", pr.endpoint_name>>)),
                          "Error creating collection: ")
  ELSE LET p0 == [Call(pr, <<"QdrantVectorClient", pr.endpoint_name>>)
                    EXCEPT !.client = <<o.value>>]
           p1 == PrintLine(p0, <<"Using endpoint: ", p0.client[1].endpoint_name>>)
           p2 == PrintLine(p1, <<"Collection name: ", DisplayName(p1)>>)
           p3 == PrintLine(p2, <<"Vector size: ", p2.vector_size>>)
       IN [Call(PrintLine(p3, <<"Recreating collection '", DisplayName(p3), "'...">>),
                <<"recreate_collection", p3.collection_name, p3.vector_size>>)
             EXCEPT !.pc = "await_recreate"]

\* create_qdrant_collection, from its entry to its first await: the client is
\* constructed (o is what the constructor ends with), the three lines are
\* printed, and the first client call is issued.
CreateEntry(pr, o) ==
  IF o.raised THEN Except(Raise(Call(pr, <<"QdrantVectorClient", pr.endpoint_name>>)),
                          "Error creating collection: ")
  ELSE LET p0 == [Call(pr, <<"QdrantVectorClient", pr.endpoint_name>>)
                    EXCEPT !.client = <<o.value>>]
           p1 == PrintLine(p0, <<"Using endpoint: ", p0.client[1].endpoint_name>>)
           p2 == PrintLine(p1, <<"Collection name: ", DisplayName(p1)>>)
           p3 == PrintLine(p2, <<"Vector size: ", p2.vector_size>>)
       IN IF p3.recreate
          THEN [Call(PrintLine(p3, <<"Recreating collection '", DisplayName(p3), "'...">>),
                     <<"recreate_collection", p3.collection_name, p3.vector_size>>)
                  EXCEPT !.pc = "await_recreate"]
          ELSE [Call(p3, <<"collection_exists", p3.collection_name>>)
                  EXCEPT !.pc = "await_exists"]

\* Mutant of AfterRecreate: True is returned whatever the call answered.
AfterRecreateAlwaysTrue(pr, o) ==
  IF o.raised THEN Except(Raise(pr), "Error creating collection: ")
  ELSE LET p0 == [pr EXCEPT !.success = <<o.value>>]
       IN Return(PrintLine(p0, <<"Successfully recreated collection '",
                                 DisplayName(p0), "'">>), TRUE)

\* success = await client.recreate_collection(...); the prints; return success
AfterRecreate(pr, o) ==
  IF o.raised THEN Except(Raise(pr), "Error creating collection: ")
  ELSE LET p0 == [pr EXCEPT !.success = <<o.value>>]
       IN IF p0.success[1]
          THEN Return(PrintLine(p0, <<"Successfully recreated collection '",
                                      DisplayName(p0), "'">>), p0.success[1])
          ELSE Return(PrintLine(p0, <<"Collection recreation failed">>), p0.success[1])

\* Mutant of AfterExists: the answer of the existence check is not looked at.
AfterExistsIgnored(pr, o) ==
  IF o.raised THEN Except(Raise(pr), "Error creating collection: ")
  ELSE LET p0 == [pr EXCEPT !.exists = <<o.value>>]
       IN [Call(PrintLine(p0, <<"Creating collection '", DisplayName(p0), "'...">>),
                <<"create_collection", p0.collection_name, p0.vector_size>>)
             EXCEPT !.pc = "await_create"]

\* exists = await client.collection_exists(...); return True when it exists,
\* else the creation request is issued.
AfterExists(pr, o) ==
  IF o.raised THEN Except(Raise(pr), "Error creating collection: ")
  ELSE LET p0 == [pr EXCEPT !.exists = <<o.value>>]
       IN IF p0.exists[1]
          THEN Return(PrintLine(p0, <<"Collection '", DisplayName(p0),
                                      "' already exists!">>), TRUE)
          ELSE [Call(PrintLine(p0, <<"Creating collection '", DisplayName(p0), "'...">>),
                     <<"create_collection", p0.collection_name, p0.vector_size>>)
                  EXCEPT !.pc = "await_create"]

\* Mutant of AfterCreate: a creation request answered False is issued again.
AfterCreateRetry(pr, o) ==
  IF o.raised THEN Except(Raise(pr), "Error creating collection: ")
  ELSE LET p0 == [pr EXCEPT !.success = <<o.value>>]
       IN IF p0.success[1]
          THEN Return(PrintLine(p0, <<"Successfully created collection '",
                                      DisplayName(p0), "'">>), p0.success[1])
          ELSE Call(p0, <<"create_collection", p0.collection_name, p0.vector_size>>)

\* success = await client.create_collection(...); the prints; return success
AfterCreate(pr, o) ==
  IF o.raised THEN Except(Raise(pr), "Error creating collection: ")
  ELSE LET p0 == [pr EXCEPT !.success = <<o.value>>]
       IN IF p0.success[1]
          THEN Return(PrintLine(p0, <<"Successfully created collection '",
                                      DisplayName(p0), "'">>), p0.success[1])
          ELSE Return(PrintLine(p0, <<"Collection creation failed or collection already exists">>),
                      p0.success[1])

\* list_qdrant_collections, from its entry to its first await.
ListEntry(pr, o) ==
  IF o.raised THEN Except(Raise(Call(pr, <<"QdrantVectorClient", pr.endpoint_name>>)),
                          "Error listing collections: ")
  ELSE LET p0 == [Call(pr, <<"QdrantVectorClient", pr.endpoint_name>>)
                    EXCEPT !.client = <<o.value>>]
           p1 == PrintLine(p0, <<"Using endpoint: ", p0.client[1].endpoint_name>>)
       IN [Call(p1, <<"_get_qdrant_client">>) EXCEPT !.pc = "await_client"]

\* qdrant_client = await client._get_qdrant_client(); get_collections is issued
AfterGetClient(pr, o) ==
  IF o.raised THEN Except(Raise(pr), "Error listing collections: ")
  ELSE [Call(pr, <<"get_collections">>) EXCEPT !.pc = "await_collections"]

\* Mutant of PrintNames: the names are printed last to first.
RECURSIVE PrintNamesReversed(_, _)
PrintNamesReversed(pr, names) ==
  IF names = <<>> THEN pr
  ELSE PrintLine(PrintNamesReversed(pr, Tail(names)), <<"  - ", Head(names)>>)

\* for collection in collections.collections: print(f"  - {collection.name}")
RECURSIVE PrintNames(_, _)
PrintNames(pr, names) ==
  IF names = <<>> THEN pr
  ELSE PrintNames(PrintLine(pr, <<"  - ", Head(names)>>), Tail(names))

\* collections = await qdrant_client.get_collections(); the prints; return True
AfterGetCollections(pr, o) ==
  IF o.raised THEN Except(Raise(pr), "Error listing collections: ")
  ELSE LET p0 == [pr EXCEPT !.collections = <<o.value>>]
       IN Return(PrintNames(PrintLine(p0, <<"Found ", Len(p0.collections[1]),
                                            " collections:">>),
                            p0.collections[1]),
                 TRUE)

\* ------------------------------------------------------------------------
\* main()

\* Mutant of MainCreateBranch: a token int() refuses is replaced by the
\* default and the operation runs.
MainCreateBranchLenient(pr, recreate) ==
  [pr EXCEPT !.collection_name = ArgOrNone(pr.argv, 2),
             !.vector_size = IF VectorSizeFails(pr.argv) THEN DefaultVectorSize
                             ELSE VectorSizeArg(pr.argv),
             !.endpoint_name = ArgOrNone(pr.argv, 4),
             !.recreate = recreate,
             !.pc = "create"]

\* The branch of main() for create (recreate = FALSE) and recreate (TRUE):
\* the three tokens are read, int() may raise, and asyncio.run starts
\* create_qdrant_collection.
MainCreateBranch(pr, recreate) ==
  IF VectorSizeFails(pr.argv) THEN Uncaught(pr)
  ELSE [pr EXCEPT !.collection_name = ArgOrNone(pr.argv, 2),
                  !.vector_size = VectorSizeArg(pr.argv),
                  !.endpoint_name = ArgOrNone(pr.argv, 4),
                  !.recreate = recreate,
                  !.pc = "create"]

\* The branch of main() for list.
MainListBranch(pr) ==
  [pr EXCEPT !.endpoint_name = ArgOrNone(pr.argv, 2), !.pc = "list"]

\* if len(sys.argv) < 2: the usage text is printed and main() returns.
MainUsageBranch(pr) ==
  [PrintLine(pr, <<"Usage: python create_qdrant_collection.py [command] [options]">>)
     EXCEPT !.exit = <<0>>, !.pc = "exited"]

\* Mutant of MainUnknownBranch: an unknown command ends with sys.exit(1).
MainUnknownExit1(pr) ==
  [PrintLine(pr, <<"Unknown command: ", Command(pr.argv)>>)
     EXCEPT !.exit = <<1>>, !.pc = "exited"]

\* else: print(f"Unknown command: {command}")
MainUnknownBranch(pr) ==
  [PrintLine(pr, <<"Unknown command: ", Command(pr.argv)>>)
     EXCEPT !.exit = <<0>>, !.pc = "exited"]

\* main(), from its entry to asyncio.run or to its return.
MainBody(pr) ==
  IF Argc(pr.argv) < 2 THEN MainUsageBranch(pr)
  ELSE IF Command(pr.argv) = TokCreate THEN MainCreateBranch(pr, FALSE)
  ELSE IF Command(pr.argv) = TokRecreate THEN MainCreateBranch(pr, TRUE)
  ELSE IF Command(pr.argv) = TokList THEN MainListBranch(pr)
  ELSE MainUnknownBranch(pr)

\* ------------------------------------------------------------------------
\* The command lines tried

\* <<sys.argv[0]>> followed by each prefix of toks
Prefixes(toks) == { <<TokProg>> \o SubSeq(toks, 1, n) : n \in 0..Len(toks) }

\* The optional tokens of create and recreate.
CreateOptions ==
  { <<TokDocs, size, TokLocal>> : size \in {Tok768, Tok8, TokPlus8, Tok8x} }

Argvs ==
  { <<TokProg>> }
  \cup { <<TokProg, TokFOO>> }
  \cup { <<TokProg, cmd>> \o Tail(a) :
           cmd \in {TokCreate, TokCREATE, TokRecreate},
           a \in UNION { Prefixes(o) : o \in CreateOptions } }
  \cup { <<TokProg, cmd>> \o Tail(a) :
           cmd \in {TokList, TokLiSt}, a \in Prefixes(<<TokLocal>>) }

\* The command lines of the concurrent processes.
ConcArgvs ==
  { <<TokProg>>, <<TokProg, TokFOO>>, <<TokProg, TokList>>,
    <<TokProg, TokCreate, TokDocs, Tok8x>>,
    <<TokProg, TokCreate, TokDocs, Tok768>>,
    <<TokProg, TokCreate, TokDocs, Tok8>>,
    <<TokProg, TokRecreate, TokDocs, Tok8>> }

\* ------------------------------------------------------------------------
\* Actions

\* Whether the run pr entered create_qdrant_collection in create mode.
RanCreate(pr) == pr.calls # <<>> /\ Command(pr.argv) = TokCreate

\* What a finished run leaves for the next one to be compared with: nothing,
\* or, of a run of create, the collection named, the value returned and the
\* collection's vector size when the run ended.
Summary(pr, st) ==
  IF RanCreate(pr)
  THEN << [name |-> EffectiveName(pr.collection_name), ret |-> pr.ret,
           fault |-> pr.fault, size |-> st[EffectiveName(pr.collection_name)]] >>
  ELSE <<>>

\* The script is started with the command line a: if __name__ == "__main__".
Invoke(p, a) ==
  /\ proc[p].pc = "idle"
  /\ proc' = [proc EXCEPT ![p] = [InitProc EXCEPT !.pc = "main", !.argv = a]]
  /\ UNCHANGED <<store, prev>>

\* The script has exited and is started again.
Reinvoke(p, a) ==
  /\ proc[p].pc = "exited"
  /\ proc' = [proc EXCEPT ![p] = [InitProc EXCEPT !.pc = "main", !.argv = a]]
  /\ prev' = Summary(proc[p], store)
  /\ UNCHANGED store

Main(p) ==
  /\ proc[p].pc = "main"
  /\ proc' = [proc EXCEPT ![p] = MainBody(@)]
  /\ UNCHANGED <<store, prev>>

CreateStart(p) ==
  /\ proc[p].pc = "create"
  /\ \E o \in ConstructorOutcomes(proc[p].endpoint_name, store) :
       proc' = [proc EXCEPT ![p] = CreateEntry(@, o)]
  /\ UNCHANGED <<store, prev>>

RecreateCollectionReturns(p) ==
  /\ proc[p].pc = "await_recreate"
  /\ \E o \in RecreateCollectionOutcomes(proc[p].collection_name,
                                         proc[p].vector_size, store) :
       /\ proc' = [proc EXCEPT ![p] = AfterRecreate(@, o)]
       /\ store' = o.store
  /\ UNCHANGED prev

\* Mutant of CollectionExistsReturns: the existence check waits while another
\* process is between its own check and its creation request.
CollectionExistsReturnsLocked(p) ==
  /\ proc[p].pc = "await_exists"
  /\ \A q \in Procs \ {p} : proc[q].pc # "await_create"
  /\ \E o \in CollectionExistsOutcomes(proc[p].collection_name, store) :
       /\ proc' = [proc EXCEPT ![p] = AfterExists(@, o)]
       /\ store' = o.store
  /\ UNCHANGED prev

CollectionExistsReturns(p) ==
  /\ proc[p].pc = "await_exists"
  /\ \E o \in CollectionExistsOutcomes(proc[p].collection_name, store) :
       /\ proc' = [proc EXCEPT ![p] = AfterExists(@, o)]
       /\ store' = o.store
  /\ UNCHANGED prev

CreateCollectionReturns(p) ==
  /\ proc[p].pc = "await_create"
  /\ \E o \in CreateCollectionOutcomes(proc[p].collection_name,
                                       proc[p].vector_size, store) :
       /\ proc' = [proc EXCEPT ![p] = AfterCreate(@, o)]
       /\ store' = o.store
  /\ UNCHANGED prev

ListStart(p) ==
  /\ proc[p].pc = "list"
  /\ \E o \in ConstructorOutcomes(proc[p].endpoint_name, store) :
       proc' = [proc EXCEPT ![p] = ListEntry(@, o)]
  /\ UNCHANGED <<store, prev>>

GetQdrantClientReturns(p) ==
  /\ proc[p].pc = "await_client"
  /\ \E o \in GetQdrantClientOutcomes(store) :
       proc' = [proc EXCEPT ![p] = AfterGetClient(@, o)]
  /\ UNCHANGED <<store, prev>>

GetCollectionsReturns(p) ==
  /\ proc[p].pc = "await_collections"
  /\ \E o \in GetCollectionsOutcomes(store) :
       proc' = [proc EXCEPT ![p] = AfterGetCollections(@, o)]
  /\ UNCHANGED <<store, prev>>

\* One step of the running script p.
Step(p) ==
  \/ Main(p)
  \/ CreateStart(p)
  \/ RecreateCollectionReturns(p)
  \/ CollectionExistsReturns(p)
  \/ CreateCollectionReturns(p)
  \/ ListStart(p)
  \/ GetQdrantClientReturns(p)
  \/ GetCollectionsReturns(p)

\* The script run again and again, one run at a time.
Next ==
  \/ \E a \in Argvs : Invoke(1, a)
  \/ \E a \in Argvs : Reinvoke(1, a)
  \/ Step(1)

Spec == Init /\ [][Next]_vars

\* Each process runs the script once; the processes interleave at their awaits.
NextConc ==
  \E p \in Procs :
    \/ \E a \in ConcArgvs : Invoke(p, a)
    \/ Step(p)

SpecConc == Init /\ [][NextConc]_vars

\* ------------------------------------------------------------------------
\* Properties

\* Whether the process issued the client call named op.
Has(pr, op) == \E i \in DOMAIN pr.calls : pr.calls[i][1] = op

\* The operation the process entered: one of the three coroutines.
InCreate(pr) == pr.calls # <<>> /\ Command(pr.argv) = TokCreate
InRecreate(pr) == pr.calls # <<>> /\ Command(pr.argv) = TokRecreate
InList(pr) == pr.calls # <<>> /\ Command(pr.argv) = TokList

\* The line the handler of the operation prints and logs.
ErrorLine(pr) ==
  IF InList(pr) THEN <<"Error listing collections: ", ErrMsg>>
  ELSE <<"Error creating collection: ", ErrMsg>>

\* C1: when the client constructor or an awaited client call raises, at any
\* step of create, recreate or list, the operation prints the error message,
\* logs it, returns False, issues no client call after the failing one, and no
\* exception escapes (the process exits with status 0).
C1_ExceptionBecomesFalse ==
  \A p \in Procs :
    LET pr == proc[p]
    IN pr.fault # <<>> =>
         /\ pr.pc = "exited"
         /\ pr.ret = <<FALSE>>
         /\ pr.exit = <<0>>
         /\ Len(pr.calls) = pr.fault[1]
         /\ pr.out # <<>>
         /\ pr.out[Len(pr.out)] = ErrorLine(pr)
         /\ pr.logged = <<ErrorLine(pr)>>

\* C1, its case: the creation request of create raised, after the constructor
\* and the existence check returned.
C1_Witness ==
  \E p \in Procs :
    /\ InCreate(proc[p])
    /\ proc[p].fault = <<3>>
    /\ proc[p].calls[3][1] = "create_collection"
    /\ proc[p].ret = <<FALSE>>

C2_Inv ==
  \A p \in Procs :
    LET pr == proc[p]
    IN InCreate(pr) =>
         /\ ~Has(pr, "recreate_collection")
         /\ \A i \in DOMAIN pr.calls :
              pr.calls[i][1] = "create_collection" =>
                /\ pr.exists = <<FALSE>>
                /\ i > 1
                /\ pr.calls[i - 1][1] = "collection_exists"
         /\ pr.exists = <<TRUE>> =>
              /\ pr.pc = "exited"
              /\ pr.ret = <<TRUE>>
              /\ ~Has(pr, "create_collection")

C2_Step ==
  \A p \in Procs :
    (proc[p].pc = "await_exists" /\ proc'[p].exists = <<TRUE>>) => store' = store

\* C2: in create mode the creation request is issued only after the existence
\* check returned False; when the check returns True the operation returns
\* True, never calls create_collection or recreate_collection, and the step
\* leaves every collection as it was.
C2_CreateOnlyWhenAbsent == []C2_Inv /\ [][C2_Step]_vars

\* C2, its case: create found the collection and returned True after the
\* constructor and the existence check alone.
C2_Witness ==
  \E p \in Procs :
    /\ InCreate(proc[p])
    /\ proc[p].exists = <<TRUE>>
    /\ proc[p].ret = <<TRUE>>
    /\ Len(proc[p].calls) = 2
    /\ store[EffectiveName(proc[p].collection_name)] # <<>>

\* Two runs of create in sequence against the same collection name: prev is
\* what the first left, process 1 is the second.
SecondCreate ==
  /\ prev # <<>>
  /\ InCreate(proc[1])
  /\ EffectiveName(proc[1].collection_name) = prev[1].name

\* C3 as stated, for the runs in which no client call raises: create invoked
\* twice in sequence against the same collection name returns True both times.
C3_Original ==
  (SecondCreate /\ proc[1].pc = "exited" /\ prev[1].fault = <<>> /\ proc[1].fault = <<>>) =>
    (prev[1].ret = <<TRUE>> /\ proc[1].ret = <<TRUE>>)

\* C3, amended: create invoked twice in sequence against the same collection
\* name.  When the first invocation returned True the collection exists, and
\* the second issues no creation request and returns True unless one of its
\* client calls raises.  Whatever the first returned and whatever vector_size
\* the second is given, the second leaves the vector size of a collection that
\* exists when it starts as it was.
C3_SecondCreateKeeps ==
  SecondCreate =>
    /\ prev[1].size # <<>> => store[prev[1].name] = prev[1].size
    /\ prev[1].ret = <<TRUE>> =>
         /\ prev[1].size # <<>>
         /\ ~Has(proc[1], "create_collection")
         /\ ~Has(proc[1], "recreate_collection")
         /\ (proc[1].pc = "exited" /\ proc[1].fault = <<>>) => proc[1].ret = <<TRUE>>

\* C3, its case: the first create returned True, the second was given another
\* vector size, returned True too and the collection kept its size.
C3_Witness ==
  /\ SecondCreate
  /\ prev[1].ret = <<TRUE>>
  /\ proc[1].pc = "exited"
  /\ proc[1].ret = <<TRUE>>
  /\ prev[1].size # <<>>
  /\ proc[1].vector_size # prev[1].size[1]
  /\ store[prev[1].name] = prev[1].size

\* C4: in recreate mode, whether or not the collection exists, the operation
\* never calls the existence check or create_collection; as soon as its client
\* is constructed it has issued exactly one recreate_collection call, with the
\* given name and vector size, and it issues no other; and it returns exactly
\* the boolean that call returned.
C4_RecreateIsOneCall ==
  \A p \in Procs :
    LET pr == proc[p]
    IN InRecreate(pr) =>
         /\ ~Has(pr, "collection_exists")
         /\ ~Has(pr, "create_collection")
         /\ pr.client # <<>> =>
              pr.calls = << <<"QdrantVectorClient", pr.endpoint_name>>,
                            <<"recreate_collection", pr.collection_name, pr.vector_size>> >>
         /\ pr.client = <<>> => ~Has(pr, "recreate_collection")
         /\ pr.success # <<>> => (pr.pc = "exited" /\ pr.ret = pr.success)
         /\ (pr.pc = "exited" /\ pr.fault = <<>>) => pr.success # <<>>

\* C4, its cases: recreate returned the True of its call, the collection now
\* of the size asked for; and recreate returned the False of its call.
C4_Witness ==
  \E p \in Procs :
    /\ InRecreate(proc[p])
    /\ proc[p].pc = "exited"
    /\ proc[p].success = <<TRUE>>
    /\ proc[p].ret = <<TRUE>>
    /\ store[EffectiveName(proc[p].collection_name)] = <<proc[p].vector_size>>

\* Whether the command line makes int() raise: a create or recreate command
\* whose third token is no integer literal.
ParseFailure(a) ==
  /\ Len(a) >= 4
  /\ Lower(a[2]) \in {TokCreate, TokRecreate}
  /\ ~IsIntLiteral(a[4])

\* C5 as stated: the process exits with status 0 on every path of main.
C5_Original ==
  \A p \in Procs : proc[p].pc = "exited" => proc[p].exit = <<0>>

\* C5, amended: the process exits with status 0 on every path of main, for
\* every client outcome, except when a create or recreate command carries a
\* vector_size token that is no integer: then the uncaught ValueError ends the
\* process with status 1.
C5_ExitStatus ==
  \A p \in Procs :
    proc[p].pc = "exited" =>
      /\ ParseFailure(proc[p].argv) => proc[p].exit = <<1>>
      /\ ~ParseFailure(proc[p].argv) => proc[p].exit = <<0>>

\* C5, its case: the creation request answered False, the operation returned
\* False, and the process still exited with status 0.
C5_Witness ==
  \E p \in Procs :
    /\ proc[p].pc = "exited"
    /\ InCreate(proc[p])
    /\ proc[p].success = <<FALSE>>
    /\ proc[p].ret = <<FALSE>>
    /\ proc[p].exit = <<0>>

\* The names of the lines print(f"  - {collection.name}") wrote, in order.
IsNameLine(line) == line[1] = "  - "
PrintedNames(out) ==
  [i \in 1..Len(SelectSeq(out, IsNameLine)) |-> SelectSeq(out, IsNameLine)[i][2]]

\* C6: list_qdrant_collections, when no client call raises, returns True and
\* prints one line per collection name the client reported: the same names,
\* as many times and in the same order (no name line for the empty listing),
\* after the line that counts them.
C6_ListPrintsNames ==
  \A p \in Procs :
    LET pr == proc[p]
    IN (InList(pr) /\ pr.pc = "exited" /\ pr.fault = <<>>) =>
         /\ pr.ret = <<TRUE>>
         /\ pr.collections # <<>>
         /\ PrintedNames(pr.out) = pr.collections[1]
         /\ Len(pr.out) = 2 + Len(pr.collections[1])
         /\ pr.out[2] = <<"Found ", Len(pr.collections[1]), " collections:">>

\* C6, its case: the client reported two different names and list printed
\* both, in that order.
C6_Witness ==
  \E p \in Procs :
    /\ InList(proc[p])
    /\ proc[p].ret = <<TRUE>>
    /\ proc[p].collections = << <<TokDocs, DefaultCollectionName>> >>
    /\ PrintedNames(proc[p].out) = <<TokDocs, DefaultCollectionName>>

\* C7: main reads the optional tokens by position and passes them on
\* unchanged: for create and recreate token 2 is the collection name, token 3
\* the vector size as an integer, token 4 the endpoint name; for list token 2
\* is the endpoint name; a token left out takes its default (None, 1536,
\* None); and the client is constructed and called with exactly these values.
C7_ArgumentsPassThrough ==
  \A p \in Procs :
    LET pr == proc[p]
        a == pr.argv
        name == IF Len(a) >= 3 THEN a[3] ELSE None
        size == IF Len(a) >= 4 THEN IntOf(a[4]) ELSE 1536
        endpoint == IF Len(a) >= 5 THEN a[5] ELSE None
    IN /\ (InCreate(pr) \/ InRecreate(pr)) =>
            /\ pr.calls[1] = <<"QdrantVectorClient", endpoint>>
            /\ \A i \in 2..Len(pr.calls) :
                 \/ pr.calls[i][1] = "collection_exists" /\ pr.calls[i] = <<"collection_exists", name>>
                 \/ pr.calls[i][1] = "create_collection" /\ pr.calls[i] = <<"create_collection", name, size>>
                 \/ pr.calls[i][1] = "recreate_collection" /\ pr.calls[i] = <<"recreate_collection", name, size>>
            /\ (Len(a) >= 4 /\ a[4] = Tok768) => pr.vector_size = 768
            /\ (Len(a) >= 4 /\ a[4] \in {Tok8, TokPlus8}) => pr.vector_size = 8
       /\ InList(pr) =>
            pr.calls[1] = <<"QdrantVectorClient", IF Len(a) >= 3 THEN a[3] ELSE None>>

\* C7, its case: create Docs 768 local constructed the client with endpoint
\* local, asked for the creation with size 768 and returned True.
C7_Witness ==
  \E p \in Procs :
    /\ proc[p].argv = <<TokProg, TokCreate, TokDocs, Tok768, TokLocal>>
    /\ proc[p].calls = << <<"QdrantVectorClient", TokLocal>>,
                          <<"collection_exists", TokDocs>>,
                          <<"create_collection", TokDocs, 768>> >>
    /\ proc[p].ret = <<TRUE>>

\* The three command names.
CommandNames == {TokCreate, TokRecreate, TokList}

\* C8 as stated: a client is constructed only when the first token is one of
\* create, recreate, list and the vector_size token is an integer; any other
\* first token is printed as given after "Unknown command: ", and no client is
\* constructed.
C8_Original ==
  \A p \in Procs :
    LET pr == proc[p]
        a == pr.argv
    IN /\ pr.calls # <<>> => (Len(a) >= 2 /\ a[2] \in CommandNames)
       /\ (pr.pc = "exited" /\ Len(a) >= 2 /\ a[2] \notin CommandNames) =>
            /\ pr.calls = <<>>
            /\ Len(pr.out) = 1
            /\ pr.out[1][1] = "Unknown command: "
            /\ pr.out[1][2] = a[2]

\* C8, amended: a client is constructed and a remote call is issued only when
\* the first token, put in lower case, is one of create, recreate, list and,
\* for create and recreate, the vector_size token given is an integer.  With
\* no argument the usage is printed; with a first token that is none of the
\* three in lower case, "Unknown command: " and the token in lower case are
\* printed; with a vector_size that is no integer the ValueError is not
\* caught; in the three cases no client is constructed and no call is made.
C8_ClientOnlyForCommands ==
  \A p \in Procs :
    LET pr == proc[p]
        a == pr.argv
    IN /\ pr.calls # <<>> =>
            (Len(a) >= 2 /\ Lower(a[2]) \in CommandNames /\ ~ParseFailure(a))
       /\ (pr.pc = "exited" /\ Len(a) < 2) =>
            /\ pr.calls = <<>>
            /\ pr.exit = <<0>>
            /\ Len(pr.out) = 1
            /\ pr.out[1][1] = "Usage: python create_qdrant_collection.py [command] [options]"
       /\ (pr.pc = "exited" /\ Len(a) >= 2 /\ Lower(a[2]) \notin CommandNames) =>
            /\ pr.calls = <<>>
            /\ pr.exit = <<0>>
            /\ Len(pr.out) = 1
            /\ pr.out[1][1] = "Unknown command: "
            /\ pr.out[1][2] = Lower(a[2])
       /\ (pr.pc = "exited" /\ ParseFailure(a)) =>
            /\ pr.calls = <<>>
            /\ pr.out = <<>>
            /\ pr.ret = <<>>
            /\ pr.exit = <<1>>

\* C8, its case: the first token FOO was answered "Unknown command: foo" and
\* no client was constructed.
C8_Witness ==
  \E p \in Procs :
    /\ proc[p].pc = "exited"
    /\ proc[p].argv = <<TokProg, TokFOO>>
    /\ proc[p].out = << <<"Unknown command: ", <<"f", "o", "o">> >> >>
    /\ proc[p].calls = <<>>

\* The client calls the process awaited, by name, in order: its calls but the
\* constructor.
Awaited(pr) == [i \in 1..(Len(pr.calls) - 1) |-> pr.calls[i + 1][1]]

\* The requests the process sent to the vector store: its awaited calls but
\* _get_qdrant_client, which hands out the connection.
Requests(pr) == SelectSeq(Awaited(pr), LAMBDA op : op # "_get_qdrant_client")

\* C9 as stated, for the runs in which no client call raises: an invocation
\* of create, recreate or list performs exactly one remote call.
C9_Original ==
  \A p \in Procs :
    (proc[p].calls # <<>> /\ proc[p].pc = "exited" /\ proc[p].fault = <<>>) =>
      Len(Requests(proc[p])) = 1

\* C9, amended: an invocation awaits the client once or twice, and suspends
\* at each await.  When no call raises: recreate awaits recreate_collection
\* alone; create awaits the existence check alone when the collection exists,
\* and the existence check, then create_collection when it does not; list
\* awaits _get_qdrant_client, then get_collections.  When a call raises the
\* invocation stops there.  It never awaits more than two calls.
C9_AwaitedCalls ==
  \A p \in Procs :
    LET pr == proc[p]
    IN pr.calls # <<>> =>
         /\ Len(Awaited(pr)) <= 2
         /\ (pr.pc = "exited" /\ pr.fault = <<>>) =>
              /\ InRecreate(pr) => Awaited(pr) = <<"recreate_collection">>
              /\ (InCreate(pr) /\ pr.exists = <<TRUE>>) =>
                   Awaited(pr) = <<"collection_exists">>
              /\ (InCreate(pr) /\ pr.exists = <<FALSE>>) =>
                   Awaited(pr) = <<"collection_exists", "create_collection">>
              /\ InList(pr) => Awaited(pr) = <<"_get_qdrant_client", "get_collections">>

\* C9, its case: create found no collection, awaited the existence check and
\* the creation request, and returned True.
C9_Witness ==
  \E p \in Procs :
    /\ InCreate(proc[p])
    /\ proc[p].pc = "exited"
    /\ proc[p].fault = <<>>
    /\ Len(Awaited(proc[p])) = 2
    /\ proc[p].ret = <<TRUE>>

\* Whether the process is between its start and its exit.
Running(p) == proc[p].pc \notin {"idle", "exited"}

====
